---- MODULE Spec2Model ----
(***************************************************************************)
(* Model of yt.py (vtietz/yt-down): the input resolver get_video_id, the   *)
(* resolution parser get_resolution_height, the capped format selection,   *)
(* the collision-avoiding get_unique_filename, the per-video pipeline      *)
(* download_video_and_audio_separately and the batch loop of __main__.     *)
(*                                                                         *)
(* Python strings are sequences of one-character strings, so that parsing  *)
(* and formatting are computed and not assumed.  Python's None is the      *)
(* value None where a string is expected and NoHeight where an integer is. *)
(***************************************************************************)
EXTENDS Integers, Sequences, FiniteSets, TLC

VARIABLES
    fpc,        \* position of the function call under study: "in" | "loop" | "done"
    input,      \* arguments of the function call under study
    output,     \* its return value
    file_path,  \* get_unique_filename: local file_path
    counter,    \* get_unique_filename: local counter
    pc,         \* position of __main__ / of the per-video operation
    args,       \* parsed command line (argparse namespace)
    videos,     \* list returned by get_video_id
    idx,        \* 1-based position of the batch loop
    success_count,
    fail_count,
    exit_code,  \* NoExit while running
    fs,         \* filesystem: existing path -> size
    loc,        \* locals of download_video_and_audio_separately
    exc,        \* exception in flight in the per-video operation, or NoExc
    vlog,       \* log records written for the current video
    hist        \* what happened to each video attempted so far

pureVars == <<fpc, input, output, file_path, counter>>
mainVars == <<pc, args, videos, idx, success_count, fail_count, exit_code,
              fs, loc, exc, vlog, hist>>
vars == <<fpc, input, output, file_path, counter,
          pc, args, videos, idx, success_count, fail_count, exit_code,
          fs, loc, exc, vlog, hist>>

None == <<"None">>
NoHeight == -1

----------------------------------------------------------------------------
(* Strings *)

Digits == {"0", "1", "2", "3", "4", "5", "6", "7", "8", "9"}

DigitVal(c) ==
    CASE c = "0" -> 0 [] c = "1" -> 1 [] c = "2" -> 2 [] c = "3" -> 3
      [] c = "4" -> 4 [] c = "5" -> 5 [] c = "6" -> 6 [] c = "7" -> 7
      [] c = "8" -> 8 [] c = "9" -> 9

DigitChar(d) ==
    CASE d = 0 -> "0" [] d = 1 -> "1" [] d = 2 -> "2" [] d = 3 -> "3"
      [] d = 4 -> "4" [] d = 5 -> "5" [] d = 6 -> "6" [] d = 7 -> "7"
      [] d = 8 -> "8" [] d = 9 -> "9"

Chars(s) == {s[i] : i \in 1..Len(s)}

\* Sequences of length at most n over the alphabet A.
StringsUpTo(A, n) == UNION {[1..k -> A] : k \in 0..n}

\* int(s) succeeds.  The alphabets used here hold no sign, blank or
\* underscore, so int() accepts exactly the non-empty digit strings.
IsIntLiteral(s) == Len(s) > 0 /\ \A i \in 1..Len(s) : s[i] \in Digits

RECURSIVE ToInt(_)
ToInt(s) ==
    IF s = <<>> THEN 0
    ELSE ToInt(SubSeq(s, 1, Len(s) - 1)) * 10 + DigitVal(s[Len(s)])

\* str(n) for n >= 0
RECURSIVE IntToStr(_)
IntToStr(n) ==
    IF n < 10 THEN <<DigitChar(n)>>
    ELSE IntToStr(n \div 10) \o <<DigitChar(n % 10)>>

\* s.find(c): the first index of the character c in s, 0 when absent
Find(s, c) ==
    IF c \in Chars(s) THEN CHOOSE i \in 1..Len(s) : s[i] = c /\ \A j \in 1..(i - 1) : s[j] # c
    ELSE 0

\* s.split(c)
RECURSIVE Split(_, _)
Split(s, c) ==
    IF c \notin Chars(s) THEN <<s>>
    ELSE <<SubSeq(s, 1, Find(s, c) - 1)>> \o Split(SubSeq(s, Find(s, c) + 1, Len(s)), c)

\* sub in s
Contains(s, sub) ==
    \E i \in 1..(Len(s) - Len(sub) + 1) : SubSeq(s, i, i + Len(sub) - 1) = sub

LowerChar(c) ==
    CASE c = "P" -> "p" [] c = "X" -> "x" [] c = "A" -> "a" [] OTHER -> c

\* s.lower()
Lower(s) == [i \in 1..Len(s) |-> LowerChar(s[i])]

\* the text matched by \d+ at the start of s (<<>> when there is no match)
RECURSIVE LeadingDigits(_)
LeadingDigits(s) ==
    IF s = <<>> \/ Head(s) \notin Digits THEN <<>>
    ELSE <<Head(s)>> \o LeadingDigits(Tail(s))

----------------------------------------------------------------------------
(* get_resolution_height *)

\* re.match(r'(\d+)p?', resolution.lower()): anchored at the start only
DigitsHeight(d) == IF d # <<>> THEN ToInt(d) ELSE NoHeight

RegexHeight(resolution) == DigitsHeight(LeadingDigits(Lower(resolution)))

\* width, height = map(int, parts) succeeds
SplitParses(parts) ==
    /\ Len(parts) = 2
    /\ IsIntLiteral(parts[1])
    /\ IsIntLiteral(parts[2])

\* the body of "if 'x' in resolution:" and what follows it, parts being
\* resolution.split('x')
HeightFromParts(resolution, parts) ==
    IF SplitParses(parts) THEN ToInt(parts[2]) ELSE RegexHeight(resolution)

get_resolution_height(resolution) ==
    IF resolution = None \/ resolution = <<>> THEN NoHeight
    ELSE IF "x" \in Chars(resolution)
         THEN HeightFromParts(resolution, Split(resolution, "x"))
    ELSE RegexHeight(resolution)

\* Python truthiness of the returned height: None and 0 are false
HeightTruthy(h) == h # NoHeight /\ h # 0

----------------------------------------------------------------------------
(* get_video_id *)

S_https == <<"h", "t", "t", "p", "s", ":", "/", "/">>
S_youtu_be == <<"y", "o", "u", "t", "u", ".", "b", "e">>
S_youtube_com == <<"y", "o", "u", "t", "u", "b", "e", ".", "c", "o", "m">>

\* Characters that end a URL scheme.  The alphabets used here hold letters,
\* digits and '.', which are scheme characters, and these delimiters; they
\* hold no ';', '%', '+', blank or bracket, on which urlparse and parse_qs do
\* further work that is therefore not modelled.
UrlDelims == {":", "/", "?", "#", "=", "&"}

IsAlpha(c) == c \notin UrlDelims \cup Digits \cup {"."}

\* the first index >= from of a character of cs in s, Len(s) + 1 when absent
FindAny(s, cs, from) ==
    IF \E i \in from..Len(s) : s[i] \in cs
    THEN CHOOSE i \in from..Len(s) : s[i] \in cs /\ \A j \in from..(i - 1) : s[j] \notin cs
    ELSE Len(s) + 1

\* the text of s before its first c (all of s when c is absent)
Before(s, c) == IF c \in Chars(s) THEN SubSeq(s, 1, Find(s, c) - 1) ELSE s

\* the text of s after its first c (empty when c is absent)
After(s, c) == IF c \in Chars(s) THEN SubSeq(s, Find(s, c) + 1, Len(s)) ELSE <<>>

\* urlsplit, last step: the query is what follows the first '?'
UrlFromQuery(scheme, netloc, fragment, rest) ==
    [scheme |-> scheme, netloc |-> netloc, path |-> Before(rest, "?"),
     query |-> After(rest, "?"), fragment |-> fragment]

\* urlsplit: the fragment is what follows the first '#'
UrlFromFragment(scheme, netloc, rest) ==
    UrlFromQuery(scheme, netloc, After(rest, "#"), Before(rest, "#"))

\* urlsplit: after "//" the netloc runs to the first '/', '?' or '#'
UrlFromNetloc(scheme, rest) ==
    IF Len(rest) >= 2 /\ SubSeq(rest, 1, 2) = <<"/", "/">>
    THEN UrlFromFragment(scheme,
                         SubSeq(rest, 3, FindAny(rest, {"/", "?", "#"}, 3) - 1),
                         SubSeq(rest, FindAny(rest, {"/", "?", "#"}, 3), Len(rest)))
    ELSE UrlFromFragment(scheme, <<>>, rest)

\* urlsplit: a scheme is a letter and scheme characters before the first ':'
HasScheme(url) ==
    /\ Find(url, ":") > 1
    /\ IsAlpha(url[1])
    /\ \A i \in 1..(Find(url, ":") - 1) : url[i] \notin UrlDelims

\* urllib.parse.urlparse(url): scheme, netloc, path, query, fragment
urlparse(url) ==
    IF HasScheme(url)
    THEN UrlFromNetloc(Lower(Before(url, ":")), After(url, ":"))
    ELSE UrlFromNetloc(<<>>, url)

\* the (name, value) pairs urllib.parse.parse_qsl keeps: fields without '='
\* and fields with a blank value are dropped
RECURSIVE QueryPairs(_)
QueryPairs(fields) ==
    IF fields = <<>> THEN <<>>
    ELSE IF Find(Head(fields), "=") > 0 /\ Find(Head(fields), "=") < Len(Head(fields))
         THEN <<[name |-> Before(Head(fields), "="),
                 value |-> After(Head(fields), "=")]>> \o QueryPairs(Tail(fields))
         ELSE QueryPairs(Tail(fields))

\* values.get(name, [None])[0], pairs being the kept fields
FirstValue(pairs, name) ==
    IF \E i \in 1..Len(pairs) : pairs[i].name = name
    THEN pairs[CHOOSE i \in 1..Len(pairs) :
                 pairs[i].name = name /\ \A j \in 1..(i - 1) : pairs[j].name # name].value
    ELSE None

\* parse_qs(query).get(name, [None])[0]
QueryFirst(query, name) == FirstValue(QueryPairs(Split(query, "&")), name)

\* get_video_id returns a list of {id, title} or None; its callers only test
\* the result for truth, and it never returns an empty list, so None is the
\* empty sequence here.
NoVideos == <<>>

\* search_results is what search_youtube returned (NoVideos for None or [])

get_video_id(input_string, search_results) ==
    IF Contains(input_string, S_youtube_com) \/ Contains(input_string, S_youtu_be)
    THEN IF Contains(input_string, S_youtube_com)
         THEN <<[id |-> QueryFirst(urlparse(input_string).query, <<"v">>), title |-> None]>>
         ELSE <<[id |-> SubSeq(urlparse(input_string).path, 2,
                               Len(urlparse(input_string).path)), title |-> None]>>
    ELSE IF Len(input_string) = 11
    THEN <<[id |-> input_string, title |-> None]>>
    ELSE IF search_results # <<>> THEN search_results ELSE NoVideos

----------------------------------------------------------------------------
(* sanitize_filename, get_unique_filename *)

max_length == 150

InvalidChars == {"<", ">", ":", "\"", "/", "\\", "|", "?", "*"}

S_dots == <<".", ".", ".">>
S_mp4 == <<".", "m", "p", "4">>

\* re.sub(r'[<>:"/\\|?*]', '_', filename)
Clean(filename) ==
    [i \in 1..Len(filename) |-> IF filename[i] \in InvalidChars THEN "_" ELSE filename[i]]

\* clean[:max_length-3] + "..." when clean is longer than max_length
Limit(clean) ==
    IF Len(clean) > max_length THEN SubSeq(clean, 1, max_length - 3) \o S_dots ELSE clean

sanitize_filename(filename) == Limit(Clean(filename))

\* os.path.join(a, b) for a relative name b
PathJoin(a, b) ==
    IF a = <<>> THEN b
    ELSE IF a[Len(a)] = "/" THEN a \o b
    ELSE a \o <<"/">> \o b

\* the base name get_unique_filename builds from title and suffix
UniqueBaseName(title, suffix) ==
    IF suffix # <<>> THEN sanitize_filename(title) \o suffix
    ELSE sanitize_filename(title)

\* the first candidate, "<base>.mp4"
FirstCandidate(base_path, base_name) == PathJoin(base_path, base_name \o S_mp4)

\* NextCandidate with the counter read after its increment
NextCandidateSkip(base_path, base_name, n) ==
    PathJoin(base_path, base_name \o <<"_">> \o IntToStr(n + 1) \o S_mp4)

\* the candidate the loop body builds, "<base>_<counter>.mp4"
NextCandidate(base_path, base_name, n) ==
    PathJoin(base_path, base_name \o <<"_">> \o IntToStr(n) \o S_mp4)

\* the while loop of get_unique_filename, from the candidate p and counter n
RECURSIVE UniqueFrom(_, _, _, _, _)
UniqueFrom(existing, base_path, base_name, p, n) ==
    IF p \in existing
    THEN UniqueFrom(existing, base_path, base_name,
                    NextCandidate(base_path, base_name, n), n + 1)
    ELSE p

\* existing is the set of paths for which os.path.exists is true
get_unique_filename(existing, base_path, title, suffix) ==
    UniqueFrom(existing, base_path, UniqueBaseName(title, suffix),
               FirstCandidate(base_path, UniqueBaseName(title, suffix)), 1)

----------------------------------------------------------------------------
(* Format lists and the selection under a resolution cap *)

S_none == <<"n", "o", "n", "e">>
S_unknown == <<"u", "n", "k", "n", "o", "w", "n">>

\* A stream descriptor is a record [format_id, resolution, vcodec, acodec,
\* tbr, vbr, filesize]; a missing or None number is 0, which Python's
\* "x or 0" reads the same way.

\* tuple comparison a <= b of Python, on triples
TripleLe(a, b) ==
    \/ a[1] < b[1]
    \/ a[1] = b[1] /\ a[2] < b[2]
    \/ a[1] = b[1] /\ a[2] = b[2] /\ a[3] <= b[3]

\* sorted(xs, key=...) on [key, val] pairs.  The sort is stable: x goes
\* after every element whose key is not greater.
InsertAt(s, x, p) == SubSeq(s, 1, p - 1) \o <<x>> \o SubSeq(s, p, Len(s))

\* the least element of a non-empty set of positions, else otherwise
FirstOf(positions, otherwise) ==
    IF positions = {} THEN otherwise
    ELSE CHOOSE i \in positions : \A j \in positions : i <= j

Insert(s, x) ==
    InsertAt(s, x, FirstOf({i \in 1..Len(s) : ~TripleLe(s[i].key, x.key)}, Len(s) + 1))

RECURSIVE SortedPairs(_)
SortedPairs(s) ==
    IF s = <<>> THEN <<>>
    ELSE Insert(SortedPairs(SubSeq(s, 1, Len(s) - 1)), s[Len(s)])

Vals(pairs) == [i \in 1..Len(pairs) |-> pairs[i].val]

\* get_resolution_height(...) or 0
HeightOrZero(resolution) ==
    IF HeightTruthy(get_resolution_height(resolution))
    THEN get_resolution_height(resolution)
    ELSE 0

\* fmt.get('tbr', 0) or fmt.get('vbr', 0) or 0
Bitrate(fmt) == IF fmt.tbr # 0 THEN fmt.tbr ELSE fmt.vbr

get_quality_score(fmt) == <<HeightOrZero(fmt.resolution), Bitrate(fmt), fmt.filesize>>

sort_formats_by_quality(formats) ==
    Vals(SortedPairs([i \in 1..Len(formats) |->
            [key |-> get_quality_score(formats[i]), val |-> formats[i]]]))

\* the key of the sort inside a resolution group: one number,
\* tbr or vbr or filesize or 0
GroupKey(fmt) ==
    IF fmt.tbr # 0 THEN fmt.tbr
    ELSE IF fmt.vbr # 0 THEN fmt.vbr
    ELSE fmt.filesize

\* sorted(best_formats, key=lambda f: (tbr or vbr or filesize or 0))
SortedGroup(best_formats) ==
    Vals(SortedPairs([i \in 1..Len(best_formats) |->
            [key |-> <<GroupKey(best_formats[i]), 0, 0>>, val |-> best_formats[i]]]))

video_only(formats) ==
    SelectSeq(formats, LAMBDA f : f.vcodec # S_none /\ f.acodec = S_none
                                  /\ f.resolution # S_unknown)

audio_only(formats) ==
    SelectSeq(formats, LAMBDA f : f.acodec # S_none /\ f.vcodec = S_none)

\* the formats the cap keeps: a height that is true and <= max_height
WithinCap(formats, max_height) ==
    SelectSeq(formats, LAMBDA f :
        /\ HeightTruthy(get_resolution_height(f.resolution))
        /\ get_resolution_height(f.resolution) <= max_height)

\* the keys of formats_by_res in insertion order
RECURSIVE ResolutionKeys(_)
AddKey(keys, res) ==
    IF \E i \in 1..Len(keys) : keys[i] = res THEN keys ELSE Append(keys, res)

ResolutionKeys(formats) ==
    IF formats = <<>> THEN <<>>
    ELSE AddKey(ResolutionKeys(SubSeq(formats, 1, Len(formats) - 1)),
                formats[Len(formats)].resolution)

\* max(keys, key=height or 0): the first key of the greatest height
MaxResAvailable(keys) ==
    keys[CHOOSE i \in 1..Len(keys) :
            /\ \A j \in 1..Len(keys) : HeightOrZero(keys[j]) <= HeightOrZero(keys[i])
            /\ \A j \in 1..(i - 1) : HeightOrZero(keys[j]) < HeightOrZero(keys[i])]

\* video_formats after the block "if max_height:"; <<>> stands for the raise
\* "No video formats found for resolution ... or below"
\* formats_by_res[res]
GroupOf(kept, res) == SelectSeq(kept, LAMBDA f : f.resolution = res)

\* [xs[-1]]
LastOnly(xs) == <<xs[Len(xs)]>>

\* the choice among the formats kept by the cap
BestWithinCap(kept) ==
    IF kept = <<>> THEN <<>>
    ELSE LastOnly(SortedGroup(GroupOf(kept, MaxResAvailable(ResolutionKeys(kept)))))

CapSelect(video_formats, max_height) ==
    BestWithinCap(WithinCap(sort_formats_by_quality(video_formats), max_height))

----------------------------------------------------------------------------
(* Bounds *)

MaxResLen == 4      \* longest --max-res string tried
MaxTailLen == 4     \* longest text after the host part of a URL
MaxFormats == 3     \* longest list of video-only formats tried
MaxCounter == 3     \* greatest counter of the files that may pre-exist
MaxChain == 11      \* length of the longest run of taken candidates
MaxVideos == 2      \* most videos the resolver returns

NoExit == -1
NoExc == "NoExc"

\* the values of the batch variables while a single function is studied
MainIdle ==
    /\ pc = "idle"
    /\ args = <<>>
    /\ videos = <<>>
    /\ idx = 0
    /\ success_count = 0
    /\ fail_count = 0
    /\ exit_code = NoExit
    /\ fs = <<>>
    /\ loc = <<>>
    /\ exc = NoExc
    /\ vlog = <<>>
    /\ hist = <<>>

\* the values of the function-call variables while the batch is studied
PureIdle ==
    /\ fpc = "idle"
    /\ input = <<>>
    /\ output = <<>>
    /\ file_path = <<>>
    /\ counter = 0

----------------------------------------------------------------------------
(* get_resolution_height on every short string *)

ResAlphabet == {"0", "1", "2", "p", "P", "x", "a"}

ResInit ==
    /\ MainIdle
    /\ fpc = "in"
    /\ input \in {[resolution |-> r] : r \in StringsUpTo(ResAlphabet, MaxResLen)}
    /\ output = <<>>
    /\ file_path = <<>>
    /\ counter = 0

ResApply ==
    /\ fpc = "in"
    /\ output' = get_resolution_height(input.resolution)
    /\ fpc' = "done"
    /\ UNCHANGED <<input, file_path, counter>>
    /\ UNCHANGED mainVars

ResNext == ResApply

SpecRes == ResInit /\ [][ResNext]_vars

----------------------------------------------------------------------------
(* get_video_id on URLs of the two host forms *)

UrlAlphabet == {"a", "v", "/", "?", "=", "&", "#"}

S_scenarioB == S_https \o S_youtu_be
               \o <<"/", "a", "b", "c", "1", "2", "3", "4", "5", "6", "7", "8">>

ShortUrls(n) == {S_https \o S_youtu_be \o t : t \in StringsUpTo(UrlAlphabet, n)}
HostUrls(n) == {S_https \o <<"w", "w", "w", ".">> \o S_youtube_com
                  \o <<"/", "w", "a", "t", "c", "h">> \o t :
                    t \in StringsUpTo(UrlAlphabet, n)}

UrlInit ==
    /\ MainIdle
    /\ fpc = "in"
    /\ input \in {[input_string |-> u] : u \in ShortUrls(MaxTailLen) \cup HostUrls(MaxTailLen) \cup {S_scenarioB}}
    /\ output = <<>>
    /\ file_path = <<>>
    /\ counter = 0

UrlApply ==
    /\ fpc = "in"
    /\ output' = get_video_id(input.input_string, NoVideos)
    /\ fpc' = "done"
    /\ UNCHANGED <<input, file_path, counter>>
    /\ UNCHANGED mainVars

UrlNext == UrlApply

SpecUrl == UrlInit /\ [][UrlNext]_vars

----------------------------------------------------------------------------
(* The selection under a resolution cap on every short list of formats *)

S_1x1 == <<"1", "x", "1">>
S_2x1 == <<"2", "x", "1">>
S_1x2 == <<"1", "x", "2">>
S_1p == <<"1", "p">>
S_avc == <<"a", "v", "c">>

\* video-only descriptors without their format_id
VideoUniverse ==
    [resolution : {S_1x1, S_2x1, S_1x2}, tbr : {0, 1, 2}, vbr : {0, 1},
     filesize : {0, 1}]

\* the descriptor d at position i of the source list; format_id is i
VideoFormat(d, i) ==
    [format_id |-> IntToStr(i), resolution |-> d.resolution, vcodec |-> S_avc,
     acodec |-> S_none, tbr |-> d.tbr, vbr |-> d.vbr, filesize |-> d.filesize]

SelInit ==
    /\ MainIdle
    /\ fpc = "in"
    /\ \E n \in 1..MaxFormats : \E ds \in [1..n -> VideoUniverse] :
       \E cap \in {S_1p, <<"2", "p">>} :
          input = [video_formats |-> [i \in 1..n |-> VideoFormat(ds[i], i)],
                   max_resolution |-> cap]
    /\ output = <<>>
    /\ file_path = <<>>
    /\ counter = 0

SelApply ==
    /\ fpc = "in"
    /\ output' = CapSelect(input.video_formats, get_resolution_height(input.max_resolution))
    /\ fpc' = "done"
    /\ UNCHANGED <<input, file_path, counter>>
    /\ UNCHANGED mainVars

SelNext == SelApply

SpecSel == SelInit /\ [][SelNext]_vars

----------------------------------------------------------------------------
(* get_unique_filename, one loop iteration per step *)

S_dir == <<"d">>
S_a == <<"a">>
S_a_1 == <<"a", "_", "1">>
S__1 == <<"_", "1">>

\* the n-th candidate for a base name: "<base>.mp4", then "<base>_<n>.mp4"
Candidate(base_path, base_name, n) ==
    IF n = 0 THEN FirstCandidate(base_path, base_name)
    ELSE NextCandidate(base_path, base_name, n)

\* files that may pre-exist: candidates for "a" and for "a_1"
FilePool(m) ==
    {Candidate(S_dir, S_a, n) : n \in 0..m}
    \cup {Candidate(S_dir, S_a_1, n) : n \in 0..1}

\* a long run of taken candidates, so that counters of two digits occur
Chain(m) == {Candidate(S_dir, S_a, n) : n \in 0..m}

UniqueInit ==
    /\ MainIdle
    /\ fpc = "in"
    /\ input \in [existing : (SUBSET FilePool(MaxCounter)) \cup {Chain(MaxChain)},
                  base_path : {S_dir}, title : {S_a, S_a_1, <<"a", ":">>},
                  suffix : {<<>>, S__1}]
    /\ output = <<>>
    /\ file_path = <<>>
    /\ counter = 0

\* file_path = os.path.join(base_path, f"{base_name}.mp4"); counter = 1
UniqueStart ==
    /\ fpc = "in"
    /\ file_path' = FirstCandidate(input.base_path, UniqueBaseName(input.title, input.suffix))
    /\ counter' = 1
    /\ fpc' = "loop"
    /\ UNCHANGED <<input, output>>
    /\ UNCHANGED mainVars

\* one iteration of "while os.path.exists(file_path)"
UniqueLoop ==
    /\ fpc = "loop"
    /\ file_path \in input.existing
    /\ file_path' = NextCandidate(input.base_path,
                                  UniqueBaseName(input.title, input.suffix), counter)
    /\ counter' = counter + 1
    /\ UNCHANGED <<fpc, input, output>>
    /\ UNCHANGED mainVars

\* return file_path
UniqueReturn ==
    /\ fpc = "loop"
    /\ file_path \notin input.existing
    /\ output' = file_path
    /\ fpc' = "done"
    /\ UNCHANGED <<input, file_path, counter>>
    /\ UNCHANGED mainVars

UniqueNext == UniqueStart \/ UniqueLoop \/ UniqueReturn

SpecUnique == UniqueInit /\ [][UniqueNext]_vars

----------------------------------------------------------------------------
(* __main__ and download_video_and_audio_separately *)

Unbound == <<"Unbound">>

S_download == <<"d", "o", "w", "n", "l", "o", "a", "d">>
S_temp_video == <<"_", "t", "e", "m", "p", "_", "v", "i", "d", "e", "o">> \o S_mp4
S_temp_audio == <<"_", "t", "e", "m", "p", "_", "a", "u", "d", "i", "o">> \o S_mp4
S_stderr == "codec not found"

\* a stream descriptor of the metadata response
Fmt(id, res, vc, ac, tbr) ==
    [format_id |-> id, resolution |-> res, vcodec |-> vc, acodec |-> ac,
     tbr |-> tbr, vbr |-> 0, filesize |-> 0]

F_low == Fmt(<<"1">>, S_1x1, S_avc, S_none, 1)
F_high == Fmt(<<"2">>, S_1x2, S_avc, S_none, 2)
F_unknown == Fmt(<<"4">>, S_unknown, S_avc, S_none, 1)
F_audio == Fmt(<<"3">>, <<"a">>, S_none, <<"a", "a", "c">>, 1)

\* the format lists the metadata fetch may return: two video heights and an
\* audio stream; no audio-only stream; no video-only stream of known
\* resolution; nothing within a cap of 1p
FormatLists ==
    {<<F_low, F_high, F_audio>>, <<F_low>>, <<F_unknown, F_audio>>, <<F_high, F_audio>>}

\* what the operator may type at a prompt
Typed == {<<>>, <<"1">>, <<"9">>, <<"a">>}

\* the video of rank i of a search result
SearchVideo(i) == [id |-> <<"v">> \o IntToStr(i), title |-> S_a]

\* what search_youtube may return for max_results n: nothing, or up to n
\* videos (never more than MaxVideos here)
SearchResults(n) ==
    {[i \in 1..k |-> SearchVideo(i)] : k \in 0..(IF n < MaxVideos THEN n ELSE MaxVideos)}

\* args.number = max(1, min(50, args.number))
ClampNumber(n) ==
    LET m == IF n < 50 THEN n ELSE 50 IN IF m > 1 THEN m ELSE 1

\* the command lines tried: no input, a literal id, a search query; the
\* interactive, the --skip-quality and the --max-res mode, an empty
\* --max-res and a --max-res value that has no height
ArgSets ==
    [input : {<<>>, <<"d", "Q", "w", "4", "w", "9", "W", "g", "X", "c", "Q">>, <<"q">>},
     skip_quality : BOOLEAN,
     force : BOOLEAN,
     max_res : {None, <<>>, S_1p, <<"p">>},
     output : {None},
     suffix : {<<>>},
     number : {MaxVideos}]

InitLocals == <<>>

\* the filesystem at the start: the download directory is empty, or holds
\* the output file of an earlier run for the title "a"
InitialFiles ==
    {<<>>, [q \in {FirstCandidate(S_download, S_a)} |-> 1]}

Init ==
    /\ PureIdle
    /\ pc = "main"
    /\ args \in {a \in ArgSets : a.max_res \in {S_1p, <<"p">>} => ~a.skip_quality}
    /\ videos = NoVideos
    /\ idx = 0
    /\ success_count = 0
    /\ fail_count = 0
    /\ exit_code = NoExit
    /\ fs \in InitialFiles
    /\ loc = InitLocals
    /\ exc = NoExc
    /\ vlog = <<>>
    /\ hist = <<>>

\* logger.error / logger.warning for the current video
Logged(level, msg, arg) == Append(vlog, [level |-> level, msg |-> msg, arg |-> arg])

Exists(path) == path \in DOMAIN fs

\* the filesystem after path was written with the given size
WithFile(f, path, size) ==
    [q \in (DOMAIN f) \cup {path} |-> IF q = path THEN size ELSE f[q]]

\* the filesystem after the paths gone were removed
Without(f, gone) == [q \in (DOMAIN f) \ gone |-> f[q]]

\* sys.exit(code)
Exit(code) ==
    /\ pc' = "exit"
    /\ exit_code' = code

\* Python truth of an optional string argument
Given(x) == x # None /\ x # <<>>

\* "if args.max_res and not get_resolution_height(args.max_res)": exit 1
MainBadResolution ==
    /\ pc = "main"
    /\ Given(args.max_res)
    /\ ~HeightTruthy(get_resolution_height(args.max_res))
    /\ Exit(1)
    /\ UNCHANGED <<args, videos, idx, success_count, fail_count, fs, loc, exc, vlog, hist>>
    /\ UNCHANGED pureVars

\* the validation passes: --max-res is absent or empty, or has a height
MaxResValid ==
    Given(args.max_res) => HeightTruthy(get_resolution_height(args.max_res))

\* "if not args.input": exit 1
MainNoInput ==
    /\ pc = "main"
    /\ MaxResValid
    /\ args.input = <<>>
    /\ Exit(1)
    /\ UNCHANGED <<args, videos, idx, success_count, fail_count, fs, loc, exc, vlog, hist>>
    /\ UNCHANGED pureVars

\* videos = get_video_id(args.input, args.number), found
MainResolve ==
    /\ pc = "main"
    /\ MaxResValid
    /\ args.input # <<>>
    /\ \E found \in SearchResults(ClampNumber(args.number)) :
          /\ get_video_id(args.input, found) # NoVideos
          /\ videos' = get_video_id(args.input, found)
    /\ idx' = 1
    /\ success_count' = 0
    /\ fail_count' = 0
    /\ pc' = "loop"
    /\ UNCHANGED <<args, exit_code, fs, loc, exc, vlog, hist>>
    /\ UNCHANGED pureVars

\* videos = get_video_id(...) is None: exit 1
MainNotFound ==
    /\ pc = "main"
    /\ MaxResValid
    /\ args.input # <<>>
    /\ \E found \in SearchResults(ClampNumber(args.number)) :
          get_video_id(args.input, found) = NoVideos
    /\ Exit(1)
    /\ UNCHANGED <<args, videos, idx, success_count, fail_count, fs, loc, exc, vlog, hist>>
    /\ UNCHANGED pureVars

\* the locals of a call for video_info; events, first_exc, remove_failed and
\* cleanup_attempted record what the call did
NewLocals(video_info) ==
    [video_id |-> video_info.id,
     title |-> video_info.title,
     formats |-> Unbound,
     video_formats |-> Unbound,
     audio_formats |-> Unbound,
     selected_video_format |-> Unbound,
     selected_audio_format |-> Unbound,
     output_file |-> Unbound,
     temp_video |-> Unbound,
     temp_audio |-> Unbound,
     returncode |-> NoExit,
     events |-> <<>>,
     first_exc |-> NoExc,
     remove_failed |-> {},
     cleanup_attempted |-> FALSE,
     completed |-> FALSE]

\* the loop takes the next video and calls the per-video operation
BatchBegin ==
    /\ pc = "loop"
    /\ idx <= Len(videos)
    /\ loc' = NewLocals(videos[idx])
    /\ vlog' = <<>>
    /\ exc' = NoExc
    /\ pc' = "Fetch"
    /\ UNCHANGED <<args, videos, idx, success_count, fail_count, exit_code, fs, hist>>
    /\ UNCHANGED pureVars

\* raise e inside the try block
Raise(e) ==
    /\ exc' = e
    /\ pc' = "Handler"

\* the metadata fetch raises
FetchRaise ==
    /\ pc = "Fetch"
    /\ Raise("ExtractError")
    /\ loc' = [loc EXCEPT !.first_exc = "ExtractError"]
    /\ UNCHANGED <<args, videos, idx, success_count, fail_count, exit_code, fs, vlog, hist>>
    /\ UNCHANGED pureVars

\* the metadata fetch returns the format list
FetchOk ==
    /\ pc = "Fetch"
    /\ \E formats \in FormatLists :
          loc' = [loc EXCEPT !.formats = formats]
    /\ pc' = "FormatSelection"
    /\ UNCHANGED <<args, videos, idx, success_count, fail_count, exit_code, fs, exc, vlog, hist>>
    /\ UNCHANGED pureVars

\* what the unchanged part of every per-video step is
StepFrame == UNCHANGED <<args, idx, success_count, fail_count, exit_code, hist>>

\* the video-only list after the block "if max_resolution:"
CappedVideoFormats ==
    IF Given(args.max_res) /\ HeightTruthy(get_resolution_height(args.max_res))
    THEN CapSelect(video_only(loc.formats), get_resolution_height(args.max_res))
    ELSE video_only(loc.formats)

SubsetEmpty == video_only(loc.formats) = <<>> \/ audio_only(loc.formats) = <<>>

\* the prompts are reached: no cap and no --skip-quality
Interactive == ~Given(args.max_res) /\ ~args.skip_quality

\* int(typed) if typed else default
ChoiceParses(typed) == typed = <<>> \/ IsIntLiteral(typed)
ChoiceValue(typed, default) == IF typed = <<>> THEN default ELSE ToInt(typed)
InRange(n, list) == 1 <= n /\ n <= Len(list)

\* SelectEmpty returning without the error record
SelectEmptySilent ==
    /\ pc = "FormatSelection"
    /\ SubsetEmpty
    /\ loc' = [loc EXCEPT !.video_formats = video_only(loc.formats),
                          !.audio_formats = audio_only(loc.formats)]
    /\ pc' = "Returned"
    /\ UNCHANGED <<videos, fs, exc, vlog>>
    /\ StepFrame
    /\ UNCHANGED pureVars

\* "if not video_formats or not audio_formats": log an error and return
SelectEmpty ==
    /\ pc = "FormatSelection"
    /\ SubsetEmpty
    /\ loc' = [loc EXCEPT !.video_formats = video_only(loc.formats),
                          !.audio_formats = audio_only(loc.formats)]
    /\ vlog' = Logged("ERROR", "No suitable video or audio formats found.", <<>>)
    /\ pc' = "Returned"
    /\ UNCHANGED <<videos, fs, exc>>
    /\ StepFrame
    /\ UNCHANGED pureVars

\* no format within the cap: raise
SelectCapRaise ==
    /\ pc = "FormatSelection"
    /\ ~SubsetEmpty
    /\ CappedVideoFormats = <<>>
    /\ loc' = [loc EXCEPT !.video_formats = <<>>,
                          !.audio_formats = audio_only(loc.formats),
                          !.first_exc = "NoFormatForCap"]
    /\ Raise("NoFormatForCap")
    /\ UNCHANGED <<videos, fs, vlog>>
    /\ StepFrame
    /\ UNCHANGED pureVars

\* both lists are non-empty after the filters
SelectFiltered ==
    /\ pc = "FormatSelection"
    /\ ~SubsetEmpty
    /\ loc' = [loc EXCEPT !.video_formats = CappedVideoFormats,
                          !.audio_formats = audio_only(loc.formats)]
    /\ loc'.video_formats # <<>>
    /\ pc' = "Choose"
    /\ UNCHANGED <<videos, fs, exc, vlog>>
    /\ StepFrame
    /\ UNCHANGED pureVars

\* the defaults are taken: a cap, --skip-quality, or Enter at the prompt
SelectDefault ==
    /\ pc = "Choose"
    /\ Interactive => \E choice \in Typed : choice = <<>>
    /\ loc' = [loc EXCEPT
          !.selected_video_format = loc.video_formats[Len(loc.video_formats)].format_id,
          !.selected_audio_format = loc.audio_formats[1].format_id]
    /\ pc' = "Prepare"
    /\ UNCHANGED <<videos, fs, exc, vlog>>
    /\ StepFrame
    /\ UNCHANGED pureVars

\* the number typed for the video list and for the audio list
VideoChoice(typed) == ChoiceValue(typed, Len(loc.video_formats))
AudioChoice(typed) == ChoiceValue(typed, 1)

VideoChoiceValid(typed) ==
    ChoiceParses(typed) /\ InRange(VideoChoice(typed), loc.video_formats)
AudioChoiceValid(typed) ==
    ChoiceParses(typed) /\ InRange(AudioChoice(typed), loc.audio_formats)

\* manual selection with both numbers in range
SelectManual ==
    /\ pc = "Choose"
    /\ Interactive
    /\ \E choice \in Typed \ {<<>>} : \E video_choice \in Typed : \E audio_choice \in Typed :
        /\ VideoChoiceValid(video_choice)
        /\ AudioChoiceValid(audio_choice)
        /\ loc' = [loc EXCEPT
              !.selected_video_format =
                  loc.video_formats[VideoChoice(video_choice)].format_id,
              !.selected_audio_format =
                  loc.audio_formats[AudioChoice(audio_choice)].format_id]
    /\ pc' = "Prepare"
    /\ UNCHANGED <<videos, fs, exc, vlog>>
    /\ StepFrame
    /\ UNCHANGED pureVars

\* manual selection with a video number out of range: print
\* "Invalid choice." and return
SelectInvalidVideo ==
    /\ pc = "Choose"
    /\ Interactive
    /\ \E choice \in Typed \ {<<>>} : \E video_choice \in Typed :
        /\ ChoiceParses(video_choice)
        /\ ~InRange(VideoChoice(video_choice), loc.video_formats)
    /\ pc' = "Returned"
    /\ UNCHANGED <<videos, fs, loc, exc, vlog>>
    /\ StepFrame
    /\ UNCHANGED pureVars

\* manual selection with an audio number out of range: print
\* "Invalid choice." and return
SelectInvalidAudio ==
    /\ pc = "Choose"
    /\ Interactive
    /\ \E choice \in Typed \ {<<>>} : \E video_choice \in Typed : \E audio_choice \in Typed :
        /\ VideoChoiceValid(video_choice)
        /\ ChoiceParses(audio_choice)
        /\ ~InRange(AudioChoice(audio_choice), loc.audio_formats)
        /\ loc' = [loc EXCEPT
              !.selected_video_format =
                  loc.video_formats[VideoChoice(video_choice)].format_id]
    /\ pc' = "Returned"
    /\ UNCHANGED <<videos, fs, exc, vlog>>
    /\ StepFrame
    /\ UNCHANGED pureVars

\* manual selection with text that int() rejects: ValueError
SelectValueError ==
    /\ pc = "Choose"
    /\ Interactive
    /\ \E choice \in Typed \ {<<>>} : \E video_choice \in Typed : \E audio_choice \in Typed :
        \/ /\ ~ChoiceParses(video_choice)
           /\ loc' = [loc EXCEPT !.first_exc = "ValueError"]
        \/ /\ VideoChoiceValid(video_choice)
           /\ ~ChoiceParses(audio_choice)
           /\ loc' = [loc EXCEPT
                 !.selected_video_format =
                     loc.video_formats[VideoChoice(video_choice)].format_id,
                 !.first_exc = "ValueError"]
    /\ Raise("ValueError")
    /\ UNCHANGED <<videos, fs, vlog>>
    /\ StepFrame
    /\ UNCHANGED pureVars

\* target_dir; download_dir is S_download
TargetDir == IF Given(args.output) THEN args.output ELSE S_download

\* the title is unknown and the second metadata fetch raises
PrepareRaise ==
    /\ pc = "Prepare"
    /\ ~Given(loc.title)
    /\ loc' = [loc EXCEPT !.first_exc = "ExtractError"]
    /\ Raise("ExtractError")
    /\ UNCHANGED <<videos, fs, vlog>>
    /\ StepFrame
    /\ UNCHANGED pureVars

\* video_info['title'] after "if not video_info['title']: ..."
KnownTitle(fetched) == IF Given(loc.title) THEN loc.title ELSE fetched

\* the title is known or fetched; output_file, temp_video and temp_audio
\* are computed
PrepareOk ==
    /\ pc = "Prepare"
    /\ \E fetched \in {S_a} :
          /\ loc' = [loc EXCEPT
                !.title = KnownTitle(fetched),
                !.output_file = get_unique_filename(DOMAIN fs, TargetDir,
                                                    KnownTitle(fetched), args.suffix),
                !.temp_video = PathJoin(S_download, loc.video_id \o S_temp_video),
                !.temp_audio = PathJoin(S_download, loc.video_id \o S_temp_audio)]
          /\ videos' = [videos EXCEPT ![idx].title = KnownTitle(fetched)]
    /\ pc' = "DownloadVideo"
    /\ UNCHANGED <<fs, exc, vlog>>
    /\ StepFrame
    /\ UNCHANGED pureVars

\* ydl.download for the video stream raises
DownloadVideoRaise ==
    /\ pc = "DownloadVideo"
    /\ loc' = [loc EXCEPT !.events = Append(@, "download_video"),
                          !.first_exc = "DownloadError"]
    /\ Raise("DownloadError")
    /\ UNCHANGED <<videos, fs, vlog>>
    /\ StepFrame
    /\ UNCHANGED pureVars

\* DownloadVideoOk going on to the merge without the audio download
DownloadVideoOkSkipAudio ==
    /\ pc = "DownloadVideo"
    /\ loc' = [loc EXCEPT !.events = Append(@, "download_video")]
    /\ \E written \in BOOLEAN :
          fs' = IF written THEN WithFile(fs, loc.temp_video, 1) ELSE fs
    /\ pc' = "Muxing"
    /\ UNCHANGED <<videos, exc, vlog>>
    /\ StepFrame
    /\ UNCHANGED pureVars

\* ydl.download for the video stream returns, with or without the file
DownloadVideoOk ==
    /\ pc = "DownloadVideo"
    /\ loc' = [loc EXCEPT !.events = Append(@, "download_video")]
    /\ \E written \in BOOLEAN :
          fs' = IF written THEN WithFile(fs, loc.temp_video, 1) ELSE fs
    /\ pc' = "DownloadAudio"
    /\ UNCHANGED <<videos, exc, vlog>>
    /\ StepFrame
    /\ UNCHANGED pureVars

\* ydl.download for the audio stream raises
DownloadAudioRaise ==
    /\ pc = "DownloadAudio"
    /\ loc' = [loc EXCEPT !.events = Append(@, "download_audio"),
                          !.first_exc = "DownloadError"]
    /\ Raise("DownloadError")
    /\ UNCHANGED <<videos, fs, vlog>>
    /\ StepFrame
    /\ UNCHANGED pureVars

\* ydl.download for the audio stream returns, with or without the file
DownloadAudioOk ==
    /\ pc = "DownloadAudio"
    /\ loc' = [loc EXCEPT !.events = Append(@, "download_audio")]
    /\ \E written \in BOOLEAN :
          fs' = IF written THEN WithFile(fs, loc.temp_audio, 1) ELSE fs
    /\ pc' = "Muxing"
    /\ UNCHANGED <<videos, exc, vlog>>
    /\ StepFrame
    /\ UNCHANGED pureVars

\* a temporary file is missing before the merge: FileNotFoundError
MuxMissingSource ==
    /\ pc = "Muxing"
    /\ ~Exists(loc.temp_video) \/ ~Exists(loc.temp_audio)
    /\ loc' = [loc EXCEPT !.first_exc = "FileNotFoundError"]
    /\ Raise("FileNotFoundError")
    /\ UNCHANGED <<videos, fs, vlog>>
    /\ StepFrame
    /\ UNCHANGED pureVars

\* what a run of ffmpeg leaves at output_file: the file in full, an empty
\* file, or nothing
MuxWrites(out) ==
    CASE out = "full" -> WithFile(fs, loc.output_file, 1)
      [] out = "empty" -> WithFile(fs, loc.output_file, 0)
      [] out = "missing" -> fs

\* subprocess.run itself raises (no ffmpeg executable): ffmpeg never ran
MuxRaise ==
    /\ pc = "Muxing"
    /\ Exists(loc.temp_video) /\ Exists(loc.temp_audio)
    /\ loc' = [loc EXCEPT !.first_exc = "FileNotFoundError"]
    /\ Raise("FileNotFoundError")
    /\ UNCHANGED <<videos, fs, vlog>>
    /\ StepFrame
    /\ UNCHANGED pureVars

\* ffmpeg runs and exits non-zero, whatever it wrote: its stderr is logged,
\* then raise
MuxFail ==
    /\ pc = "Muxing"
    /\ Exists(loc.temp_video) /\ Exists(loc.temp_audio)
    /\ \E rc \in {1} :
          loc' = [loc EXCEPT !.events = Append(@, "ffmpeg"),
                             !.returncode = rc,
                             !.first_exc = "FFmpegFailed"]
    /\ \E out \in {"full", "empty", "missing"} : fs' = MuxWrites(out)
    /\ vlog' = Logged("ERROR", "FFmpeg error", S_stderr)
    /\ Raise("FFmpegFailed")
    /\ UNCHANGED videos
    /\ StepFrame
    /\ UNCHANGED pureVars

\* ffmpeg runs and exits 0; the output file is written in full, written
\* empty, or not written
MuxOk ==
    /\ pc = "Muxing"
    /\ Exists(loc.temp_video) /\ Exists(loc.temp_audio)
    /\ loc' = [loc EXCEPT !.events = Append(@, "ffmpeg"), !.returncode = 0]
    /\ \E out \in {"full", "empty", "missing"} : fs' = MuxWrites(out)
    /\ pc' = "Verifying"
    /\ UNCHANGED <<videos, exc, vlog>>
    /\ StepFrame
    /\ UNCHANGED pureVars

\* the output file is missing or empty: raise
VerifyFail ==
    /\ pc = "Verifying"
    /\ \/ /\ ~Exists(loc.output_file)
          /\ loc' = [loc EXCEPT !.first_exc = "OutputNotCreated"]
          /\ Raise("OutputNotCreated")
       \/ /\ Exists(loc.output_file)
          /\ fs[loc.output_file] = 0
          /\ loc' = [loc EXCEPT !.first_exc = "OutputEmpty"]
          /\ Raise("OutputEmpty")
    /\ UNCHANGED <<videos, fs, vlog>>
    /\ StepFrame
    /\ UNCHANGED pureVars

\* the output file exists with a size > 0
VerifyOk ==
    /\ pc = "Verifying"
    /\ Exists(loc.output_file)
    /\ fs[loc.output_file] # 0
    /\ pc' = "CleaningUp"
    /\ UNCHANGED <<videos, fs, loc, exc, vlog>>
    /\ StepFrame
    /\ UNCHANGED pureVars

\* os.remove(temp_video); os.remove(temp_audio) both succeed
CleanupOk ==
    /\ pc = "CleaningUp"
    /\ fs' = Without(fs, {loc.temp_video, loc.temp_audio})
    /\ loc' = [loc EXCEPT !.completed = TRUE, !.cleanup_attempted = TRUE]
    /\ pc' = "Returned"
    /\ UNCHANGED <<videos, exc, vlog>>
    /\ StepFrame
    /\ UNCHANGED pureVars

\* one os.remove raises: the files from it on stay, a warning is logged
CleanupFail ==
    /\ pc = "CleaningUp"
    /\ \E failed \in {loc.temp_video, loc.temp_audio} :
          /\ fs' = IF failed = loc.temp_video THEN fs
                   ELSE Without(fs, {loc.temp_video})
          /\ loc' = [loc EXCEPT !.completed = TRUE, !.cleanup_attempted = TRUE,
                                !.remove_failed = {failed}]
    /\ vlog' = Logged("WARNING", "Error cleaning up temporary files", <<>>)
    /\ pc' = "Returned"
    /\ UNCHANGED <<videos, exc>>
    /\ StepFrame
    /\ UNCHANGED pureVars

\* the except block when temp_video and temp_audio were never assigned:
\* building the list [temp_video, temp_audio] raises UnboundLocalError,
\* which leaves the function in place of the exception caught
HandlerUnbound ==
    /\ pc = "Handler"
    /\ loc.temp_video = Unbound
    /\ vlog' = Logged("ERROR", "An error occurred", exc)
    /\ exc' = "UnboundLocalError"
    /\ pc' = "Raised"
    /\ UNCHANGED <<videos, fs, loc>>
    /\ StepFrame
    /\ UNCHANGED pureVars

\* HandlerCleanup without the removal of the temporary files
HandlerNoCleanup ==
    /\ pc = "Handler"
    /\ loc.temp_video # Unbound
    /\ vlog' = Logged("ERROR", "An error occurred", exc)
    /\ loc' = [loc EXCEPT !.cleanup_attempted = TRUE]
    /\ pc' = "Raised"
    /\ UNCHANGED <<videos, fs, exc>>
    /\ StepFrame
    /\ UNCHANGED pureVars

\* the except block: each temporary file that exists is removed, a failing
\* removal is ignored, and the exception is raised again
HandlerCleanup ==
    /\ pc = "Handler"
    /\ loc.temp_video # Unbound
    /\ vlog' = Logged("ERROR", "An error occurred", exc)
    /\ \E failed \in SUBSET ({loc.temp_video, loc.temp_audio} \cap DOMAIN fs) :
          /\ fs' = Without(fs, {loc.temp_video, loc.temp_audio} \ failed)
          /\ loc' = [loc EXCEPT !.cleanup_attempted = TRUE, !.remove_failed = failed]
    /\ pc' = "Raised"
    /\ UNCHANGED <<videos, exc>>
    /\ StepFrame
    /\ UNCHANGED pureVars

\* the merged output file of the call exists with a size > 0
Produced ==
    /\ loc.output_file # Unbound
    /\ Exists(loc.output_file)
    /\ fs[loc.output_file] # 0
    /\ loc.returncode = 0

\* the call returned: success_count += 1
BatchSuccess ==
    /\ pc = "Returned"
    /\ success_count' = success_count + 1
    /\ hist' = Append(hist, [index |-> idx, outcome |-> "success", produced |-> Produced])
    /\ idx' = idx + 1
    /\ loc' = InitLocals
    /\ vlog' = <<>>
    /\ pc' = "loop"
    /\ UNCHANGED <<args, videos, fail_count, exit_code, fs, exc>>
    /\ UNCHANGED pureVars

\* BatchFail leaving the loop instead of continuing
BatchFailBreak ==
    /\ pc = "Raised"
    /\ fail_count' = fail_count + 1
    /\ hist' = Append(hist, [index |-> idx, outcome |-> "failed", produced |-> FALSE])
    /\ idx' = Len(videos) + 1
    /\ loc' = InitLocals
    /\ vlog' = <<>>
    /\ exc' = NoExc
    /\ pc' = "loop"
    /\ UNCHANGED <<args, videos, success_count, exit_code, fs>>
    /\ UNCHANGED pureVars

\* the call raised: "except Exception": fail_count += 1; continue
BatchFail ==
    /\ pc = "Raised"
    /\ fail_count' = fail_count + 1
    /\ hist' = Append(hist, [index |-> idx, outcome |-> "failed", produced |-> FALSE])
    /\ idx' = idx + 1
    /\ loc' = InitLocals
    /\ vlog' = <<>>
    /\ exc' = NoExc
    /\ pc' = "loop"
    /\ UNCHANGED <<args, videos, success_count, exit_code, fs>>
    /\ UNCHANGED pureVars

\* after the loop: the summary, and sys.exit(1) if fail_count > 0
Summary ==
    /\ pc = "loop"
    /\ idx > Len(videos)
    /\ Exit(IF fail_count > 0 THEN 1 ELSE 0)
    /\ UNCHANGED <<args, videos, idx, success_count, fail_count, fs, loc, exc, vlog, hist>>
    /\ UNCHANGED pureVars

Next ==
    \/ MainBadResolution
    \/ MainNoInput
    \/ MainResolve
    \/ MainNotFound
    \/ BatchBegin
    \/ FetchRaise
    \/ FetchOk
    \/ SelectEmpty
    \/ SelectCapRaise
    \/ SelectFiltered
    \/ SelectDefault
    \/ SelectManual
    \/ SelectInvalidVideo
    \/ SelectInvalidAudio
    \/ SelectValueError
    \/ PrepareRaise
    \/ PrepareOk
    \/ DownloadVideoRaise
    \/ DownloadVideoOk
    \/ DownloadAudioRaise
    \/ DownloadAudioOk
    \/ MuxMissingSource
    \/ MuxRaise
    \/ MuxFail
    \/ MuxOk
    \/ VerifyFail
    \/ VerifyOk
    \/ CleanupOk
    \/ CleanupFail
    \/ HandlerUnbound
    \/ HandlerCleanup
    \/ BatchSuccess
    \/ BatchFail
    \/ Summary

Spec == Init /\ [][Next]_vars

----------------------------------------------------------------------------
(* Properties of the single functions *)

\* the first segment of a URL path: what follows the leading '/' up to the
\* next '/'
FirstPathSegment(path) == Before(SubSeq(path, 2, Len(path)), "/")

\* C4 as claimed: for a URL of one of the two host forms get_video_id
\* returns exactly one pair with unknown title whose id is the value of the
\* v query parameter (youtube.com form, when the URL has one) or the first
\* path segment only (youtu.be form).
C4_IdFromUrl ==
    fpc = "done" =>
        LET u == input.input_string
            parsed == urlparse(u)
        IN /\ Len(output) = 1
           /\ output[1].title = None
           /\ Contains(u, S_youtube_com) /\ QueryFirst(parsed.query, <<"v">>) # None
                => output[1].id = QueryFirst(parsed.query, <<"v">>)
           /\ ~Contains(u, S_youtube_com)
                => output[1].id = FirstPathSegment(parsed.path)

\* the strings "H", "Hp" and "HP": digits, then at most one p
IsHp(r) ==
    \E n \in 1..Len(r) :
        /\ IsIntLiteral(SubSeq(r, 1, n))
        /\ SubSeq(r, n + 1, Len(r)) \in {<<>>, <<"p">>, <<"P">>}

\* the strings "WxH": digits, one x, digits
IsWxH(r) ==
    \E n \in 1..Len(r) :
        /\ r[n] = "x"
        /\ IsIntLiteral(SubSeq(r, 1, n - 1))
        /\ IsIntLiteral(SubSeq(r, n + 1, Len(r)))

\* the height the claim gives a string; a bare number and an upper-case P
\* are read as the "Hp" form
ClaimedHeight(r) ==
    IF IsWxH(r) THEN ToInt(SubSeq(r, Find(r, "x") + 1, Len(r)))
    ELSE IF IsHp(r) THEN ToInt(LeadingDigits(r))
    ELSE NoHeight

\* C9 as claimed: get_resolution_height returns H for "Hp" and for "WxH" and
\* no height for every string in neither form (trailing text after the
\* digits, text before them, a malformed WxH).
C9_HeightExactlyForForms ==
    fpc = "done" => output = ClaimedHeight(input.resolution)

\* the formats of the list with a height that is true and within the cap
Qualifies(f, cap) ==
    /\ HeightTruthy(get_resolution_height(f.resolution))
    /\ get_resolution_height(f.resolution) <= cap

\* (bitrate, filesize) of f <= (bitrate, filesize) of g, bitrate first
PairLe(f, g) ==
    \/ Bitrate(f) < Bitrate(g)
    \/ Bitrate(f) = Bitrate(g) /\ f.filesize <= g.filesize

\* C3 as claimed: under a cap that some format satisfies, the selected video
\* format has height <= cap, the greatest height among the formats within
\* the cap, and the greatest (bitrate, file size) among all formats of that
\* height.
C3_CapSelectsBest ==
    fpc = "done" =>
        LET fmts == input.video_formats
            cap  == get_resolution_height(input.max_resolution)
            ok   == {i \in 1..Len(fmts) : Qualifies(fmts[i], cap)}
        IN ok # {} =>
            /\ Len(output) = 1
            /\ Qualifies(output[1], cap)
            /\ \A i \in ok : get_resolution_height(fmts[i].resolution)
                                <= get_resolution_height(output[1].resolution)
            /\ \A i \in ok : get_resolution_height(fmts[i].resolution)
                                = get_resolution_height(output[1].resolution)
                             => PairLe(fmts[i], output[1])

\* the base name and the n-th candidate of the call under study
CallBase == UniqueBaseName(input.title, input.suffix)
CallCandidate(n) ==
    IF n = 0 THEN PathJoin(input.base_path, CallBase \o S_mp4)
    ELSE PathJoin(input.base_path, CallBase \o <<"_">> \o IntToStr(n) \o S_mp4)

\* C7: get_unique_filename ends after at most one iteration per existing
\* file, tries "<base>.mp4" and then "<base>_<k>.mp4" for k = 1, 2, ... in
\* this order, and returns the first of them that does not exist.
C7_UniqueFilename ==
    /\ fpc = "loop" =>
        /\ counter <= Cardinality(input.existing) + 1
        /\ file_path = CallCandidate(counter - 1)
        /\ \A j \in 0..(counter - 2) : CallCandidate(j) \in input.existing
    /\ fpc = "done" =>
        /\ output \notin input.existing
        /\ CallCandidate(0) \notin input.existing => output = CallCandidate(0)
        /\ CallCandidate(0) \in input.existing =>
             \E k \in 1..Cardinality(input.existing) :
                /\ output = CallCandidate(k)
                /\ \A j \in 0..(k - 1) : CallCandidate(j) \in input.existing
        /\ output = get_unique_filename(input.existing, input.base_path,
                                        input.title, input.suffix)

\* a call that had to pass "<base>.mp4" and "<base>_1.mp4"
C7_Witness ==
    /\ fpc = "done"
    /\ CallCandidate(0) \in input.existing
    /\ CallCandidate(1) \in input.existing
    /\ output \notin {CallCandidate(0), CallCandidate(1)}

----------------------------------------------------------------------------
(* Properties of the per-video operation and of the batch loop *)

\* the per-video operation has just ended, by return or by an exception
Ended == pc \in {"Returned", "Raised"}

\* the metadata fetch returned, so loc.formats is bound
Fetched == pc # "Fetch" /\ loc.first_exc # "ExtractError"

TempFiles == {loc.temp_video, loc.temp_audio}

\* a call of the per-video operation is in progress or has just ended
InCall == pc \notin {"idle", "main", "loop", "exit"}

FormatErrorReported ==
    \E i \in 1..Len(vlog) :
        /\ vlog[i].level = "ERROR"
        /\ vlog[i].msg = "No suitable video or audio formats found."

\* C1: whenever the video-only or the audio-only subset of the fetched
\* formats is empty, the operation ends right after format selection with
\* the error "No suitable video or audio formats found." reported and no
\* output path chosen, and neither a stream download nor the muxer is ever
\* started for that video.
C1_EmptySubsetReportedNoDownload ==
    (InCall /\ Fetched /\ SubsetEmpty)
        => /\ loc.events = <<>>
           /\ pc \in {"FormatSelection", "Returned"}
           /\ pc = "Returned" => /\ FormatErrorReported
                                 /\ loc.output_file = Unbound
                                 /\ ~Produced

\* the operation has ended on an empty audio-only subset, error reported
C1_Witness ==
    /\ pc = "Returned"
    /\ Fetched
    /\ SubsetEmpty
    /\ FormatErrorReported
    /\ loc.events = <<>>

\* C2 as claimed: the process exits with code 0 only if every video of the
\* batch produced its merged output file.
C2_ExitZeroOnlyOnFullSuccess ==
    (pc = "exit" /\ exit_code = 0)
        => /\ Len(videos) > 0
           /\ Len(hist) = Len(videos)
           /\ \A i \in 1..Len(hist) : hist[i].produced

\* the muxer ran and exited non-zero, and the operation has ended
MuxerFailed == Ended /\ loc.returncode \notin {0, NoExit}

\* an error record of the log holds the muxer's stderr text
StderrReported ==
    \E i \in 1..Len(vlog) : vlog[i].level = "ERROR" /\ vlog[i].arg = S_stderr

\* C5 as claimed: after a non-zero muxer exit the operation fails with a
\* reported error holding the muxer's stderr text, no success is recorded,
\* and both temporary files have been removed.
C5_MuxFailureRemovesTemps ==
    MuxerFailed
        => /\ pc = "Raised"
           /\ exc = "FFmpegFailed"
           /\ StderrReported
           /\ \A t \in TempFiles : ~Exists(t)

\* C5 amended: after a non-zero muxer exit the operation fails with a
\* reported error holding the muxer's stderr text, no success is recorded,
\* and each temporary file has been removed unless its removal itself
\* failed.
C5_MuxFailureRemovesTempsUnlessRemovalFails ==
    MuxerFailed
        => /\ pc = "Raised"
           /\ exc = "FFmpegFailed"
           /\ StderrReported
           /\ \A t \in TempFiles : Exists(t) => t \in loc.remove_failed

\* a failed muxer run after which both temporary files are gone
C5_Witness ==
    /\ MuxerFailed
    /\ "ffmpeg" \in Chars(loc.events)
    /\ \A t \in TempFiles : ~Exists(t)

\* C6: the batch loop attempts the resolved videos one by one in list
\* order, each exactly once whatever the earlier outcomes, and at the
\* summary success_count + fail_count is the number of resolved videos.
C6_BatchAttemptsAll ==
    pc \notin {"idle", "main"} /\ Len(videos) > 0
        => /\ \A i \in 1..Len(hist) : hist[i].index = i
           /\ success_count + fail_count = Len(hist)
           /\ pc # "exit" => Len(hist) = idx - 1 /\ idx <= Len(videos) + 1
           /\ pc = "exit" => /\ Len(hist) = Len(videos)
                             /\ success_count + fail_count = Len(videos)

\* a batch of two whose first video failed and whose second succeeded
C6_Witness ==
    /\ pc = "exit"
    /\ Len(videos) = 2
    /\ Len(hist) = 2
    /\ hist[1].outcome = "failed"
    /\ hist[2].outcome = "success"
    /\ hist[2].produced

\* "<title><suffix>.mp4" in the target directory
BaseOutput == FirstCandidate(TargetDir, UniqueBaseName(loc.title, args.suffix))

\* C8 as claimed: with --force, when the output file for the title already
\* exists, the merged output goes to that same path, not to a
\* counter-suffixed one.
C8_ForceOverwrites ==
    (pc = "DownloadVideo" /\ args.force /\ Exists(BaseOutput))
        => loc.output_file = BaseOutput

\* C10 as claimed: whatever stage raised, the handler attempts the deletion
\* of both temporary files, ignores a failing deletion, and raises the
\* original exception again; no temporary file remains unless its deletion
\* failed.
C10_HandlerCleansAndReraises ==
    pc = "Raised"
        => /\ exc = loc.first_exc
           /\ loc.cleanup_attempted
           /\ \A t \in TempFiles : Exists(t) => t \in loc.remove_failed

----------------------------------------------------------------------------
(* The per-video state machine *)

\* the stage of the spec's state machine the call is in. The metadata fetch
\* is Resolving; the filters, the cap, the prompts and the computation of
\* the paths are FormatSelection; Done is the end of the function after the
\* cleanup of line 329-336; Failed is every other end of the call: an
\* exception on its way to the batch loop, or the return that follows the
\* error message of an empty subset or of an invalid choice.
Stage ==
    CASE pc = "Fetch" -> "Resolving"
      [] pc \in {"FormatSelection", "Choose", "Prepare"} -> "FormatSelection"
      [] pc = "DownloadVideo" -> "Downloading(video)"
      [] pc = "DownloadAudio" -> "Downloading(audio)"
      [] pc = "Muxing" -> "Muxing"
      [] pc = "Verifying" -> "Verifying"
      [] pc = "CleaningUp" -> "CleaningUp"
      [] pc = "Returned" /\ loc.completed -> "Done"
      [] pc \in {"Handler", "Raised"} \/ (pc = "Returned" /\ ~loc.completed) -> "Failed"
      [] OTHER -> "NoCall"

StageOrder ==
    <<"Resolving", "FormatSelection", "Downloading(video)", "Downloading(audio)",
      "Muxing", "Verifying", "CleaningUp", "Done">>

StageAfter(stage) ==
    StageOrder[(CHOOSE i \in 1..Len(StageOrder) : StageOrder[i] = stage) + 1]

\* this step of the call started the external call named what
Started(what) ==
    /\ Len(loc'.events) = Len(loc.events) + 1
    /\ loc'.events[Len(loc'.events)] = what

\* one step inside a call of the per-video operation
StageStep ==
    /\ \/ Stage' = Stage /\ Stage \in {"FormatSelection", "Failed"}
       \/ Stage \notin {"Done", "Failed"} /\ Stage' = StageAfter(Stage)
       \/ Stage \notin {"Done", "Failed"} /\ Stage' = "Failed"
    /\ Started("download_video")
          => Stage = "Downloading(video)" /\ loc.events = <<>>
    /\ Started("download_audio")
          => /\ Stage = "Downloading(audio)"
             /\ loc.events = <<"download_video">>
    /\ Started("ffmpeg")
          => /\ Stage = "Muxing"
             /\ loc.events = <<"download_video", "download_audio">>
             /\ Exists(loc.temp_video)
             /\ Exists(loc.temp_audio)
    /\ \A t \in TempFiles :
          (Exists(t) /\ t \notin DOMAIN fs') => Stage \in {"CleaningUp", "Failed"}
    /\ Stage' = "Done"
          => /\ loc'.returncode = 0
             /\ loc'.events = <<"download_video", "download_audio", "ffmpeg">>
             /\ loc'.output_file \in DOMAIN fs'
             /\ fs'[loc'.output_file] # 0
             /\ loc'.cleanup_attempted

\* C11: per video the stages occur only in the order FormatSelection,
\* Downloading(video), Downloading(audio), Muxing, Verifying, CleaningUp,
\* Done, each entered at most once; the audio download starts only after
\* the video download returned, the muxer is invoked only after both
\* downloads returned and with both temporary files present, the temporary
\* files are deleted and Done is reached only after the muxer exited with
\* code 0 and the output file exists with a size > 0; the only other
\* successor of a stage is the terminal Failed.
C11_StagesInOrder ==
    [][(InCall /\ pc' \notin {"idle", "main", "loop", "exit"}) => StageStep]_vars

\* a call that went through all stages to Done, both temporary files deleted
C11_Witness ==
    /\ Stage = "Done"
    /\ loc.events = <<"download_video", "download_audio", "ffmpeg">>
    /\ Produced
    /\ \A t \in TempFiles : ~Exists(t)

====
